---- MODULE Spec2Model ----
(***************************************************************************)
(* A model of prometheus_dirsize_exporter/exporter.py:                     *)
(*   - BudgetedDirInfoWalker.do_iops_action, the IO budget throttle,       *)
(*     stepped between its clock reads (specification SpecThrottle);       *)
(*   - find_urb_directory, get_dir_info, get_subdirs_info and the polling  *)
(*     loop of main, stepped one filesystem query at a time over a         *)
(*     filesystem that other processes change (specification Spec, and     *)
(*     SpecStatic for a tree nobody changes).                              *)
(***************************************************************************)
EXTENDS Integers, Sequences, FiniteSets, TLC

VARIABLES
    \* ---- the throttle (BudgetedDirInfoWalker's fields, and the clock) ----
    now,                        \* time.monotonic_ns(), in clock ticks
    iops_budget,                \* self.iops_budget
    last_iops_reset_time,       \* self._last_iops_reset_time
    io_calls_since_last_reset,  \* self._io_calls_since_last_reset
    tpc,                        \* where do_iops_action stands
    completions,                \* clock values at which charged operations returned
    slept,                      \* the last forced wait: [from, start, wait] or NoSleep
    \* ---- the filesystem under parent_dir (the environment) ----
    kind,                       \* inode -> "dir", "file", "link" or "gone"
    target,                     \* symbolic link inode -> the inode it points to
    removalsLeft,               \* how many more entries other processes remove
    faultsLeft,                 \* how many more queries fail with an OS error
    \* ---- main, get_subdirs_info, find_urb_directory, get_dir_info ----
    pc,                         \* where main / get_subdirs_info stand
    cyclesLeft,                 \* how many more cycles the polling loop runs
    gsi,                        \* get_subdirs_info's locals
    urb,                        \* find_urb_directory's locals
    stack,                      \* the get_dir_info calls in progress
    ret,                        \* what the outermost get_dir_info returned
    exc,                        \* errno of the error that left main, or 0
    active_directories,         \* main's active_directories
    current_directories,        \* main's current_directories
    series,                     \* the gauges' labelled series: dir_name -> values
    \* ---- history, for the claims ----
    yieldedLog,                 \* per finished cycle, the names yielded
    retractedLog,               \* per finished cycle, the names retracted
    lastFault,                  \* the last injected OS error and where it hit
    staleDir,                   \* top-level directory being measured when
                                \* errno 116 ended the cycle's scan, or <<>>
    iops_calls,                 \* calls of do_iops_action made in this cycle
    fs_queries                  \* filesystem queries performed in this cycle

throttleVars == <<now, iops_budget, last_iops_reset_time,
                  io_calls_since_last_reset, tpc, completions, slept>>

fsVars == <<kind, target, removalsLeft, faultsLeft>>

walkVars == <<pc, cyclesLeft, gsi, urb, stack, ret, exc, active_directories,
              current_directories, series>>

histVars == <<yieldedLog, retractedLog, lastFault, staleDir>>

chargeVars == <<iops_calls, fs_queries>>

vars == <<throttleVars, fsVars, walkVars, histVars, chargeVars>>

(***************************************************************************)
(* Bounds of the model.                                                    *)
(***************************************************************************)
MaxBudget == 1        \* budgets 0..MaxBudget are tried
MaxTime == 9          \* the clock stops being advanced at MaxTime ticks
MaxTick == 2          \* the clock advances by 1..MaxTick ticks at a time
MaxOversleep == 1     \* time.sleep may return up to this many ticks late
MaxCycles == 3        \* cycles of the polling loop
MaxRemovals == 1      \* entries removed by other processes during a run
MaxFaults == 1        \* filesystem queries that fail with an OS error
SymloopMax == 2       \* symbolic links the OS follows in one path resolution

(***************************************************************************)
(* ONE_S_IN_NS, scaled: the model's clock tick is a third of a second, and *)
(* the "+ 1" nanosecond of the wait period is one tick.                    *)
(***************************************************************************)
ONE_S_IN_NS == 3

NoSleep == [from |-> -1, start |-> -1, wait |-> 0]

\* The last n elements of a sequence.
LastN(s, n) == IF Len(s) <= n THEN s ELSE SubSeq(s, Len(s) - n + 1, Len(s))

\* How many completion times the rolling-window formulas look back.
KeepCompletions == 2 * (iops_budget + 1) + 1

(***************************************************************************)
(* do_iops_action, one step per clock read.                                *)
(***************************************************************************)

\* line 41: has more than one second passed since the last reset?
WindowExpired(t) == t - last_iops_reset_time > ONE_S_IN_NS

\* A budget test that lets one more operation through (mutant of OverBudget).
OverBudgetLate == io_calls_since_last_reset > iops_budget + 1

\* line 47: are we over budget?
OverBudget == io_calls_since_last_reset > iops_budget

\* lines 51-53: the wait period, in ticks (the code divides it by ONE_S_IN_NS
\* to get seconds; time.sleep takes it back to the clock's resolution).
WaitPeriod(t) == ONE_S_IN_NS - (t - last_iops_reset_time) + 1

\* line 41: the first clock read and the expiry test.
CheckWindow ==
    /\ tpc = "idle"
    /\ tpc' = IF WindowExpired(now) THEN "reset" ELSE "budget"
    /\ UNCHANGED <<now, iops_budget, last_iops_reset_time,
                   io_calls_since_last_reset, completions, slept>>
    /\ UNCHANGED <<fsVars, walkVars, histVars, chargeVars>>

\* lines 44-45: reset the budget clock (a second clock read).
ResetExpired ==
    /\ tpc = "reset"
    /\ io_calls_since_last_reset' = 0
    /\ last_iops_reset_time' = now
    /\ tpc' = "budget"
    /\ UNCHANGED <<now, iops_budget, completions, slept>>
    /\ UNCHANGED <<fsVars, walkVars, histVars, chargeVars>>

\* line 47: the budget test.
CheckBudget ==
    /\ tpc = "budget"
    /\ tpc' = IF OverBudget THEN "wait" ELSE "call"
    /\ UNCHANGED <<now, iops_budget, last_iops_reset_time,
                   io_calls_since_last_reset, completions, slept>>
    /\ UNCHANGED <<fsVars, walkVars, histVars, chargeVars>>

\* lines 51-54: compute the wait period from a fresh clock read and sleep.
\* time.sleep raises ValueError for a negative length; otherwise it returns
\* no earlier than asked.
ForcedWait ==
    /\ tpc = "wait"
    /\ LET w == WaitPeriod(now) IN
         IF w < 0
         THEN /\ tpc' = "raised"
              /\ slept' = [from |-> last_iops_reset_time, start |-> now, wait |-> w]
              /\ UNCHANGED now
         ELSE /\ \E late \in 0..MaxOversleep :
                    /\ now + w + late <= MaxTime
                    /\ now' = now + w + late
              /\ slept' = [from |-> last_iops_reset_time, start |-> now, wait |-> w]
              /\ tpc' = "waited"
    /\ UNCHANGED <<iops_budget, last_iops_reset_time,
                   io_calls_since_last_reset, completions>>
    /\ UNCHANGED <<fsVars, walkVars, histVars, chargeVars>>

\* lines 55-56: reset the budget clock after the wait.
ResetAfterWait ==
    /\ tpc = "waited"
    /\ io_calls_since_last_reset' = 0
    /\ last_iops_reset_time' = now
    /\ tpc' = "call"
    /\ UNCHANGED <<now, iops_budget, completions, slept>>
    /\ UNCHANGED <<fsVars, walkVars, histVars, chargeVars>>

\* lines 58-60: run the operation; count it when it returns.
CallReturns ==
    /\ tpc = "call"
    /\ io_calls_since_last_reset' = io_calls_since_last_reset + 1
    /\ completions' = LastN(Append(completions, now), KeepCompletions)
    /\ tpc' = "idle"
    /\ UNCHANGED <<now, iops_budget, last_iops_reset_time, slept>>
    /\ UNCHANGED <<fsVars, walkVars, histVars, chargeVars>>

\* line 58: the operation raises; line 59 is not reached.
CallRaises ==
    /\ tpc = "call"
    /\ tpc' = "idle"
    /\ UNCHANGED <<now, iops_budget, last_iops_reset_time,
                   io_calls_since_last_reset, completions, slept>>
    /\ UNCHANGED <<fsVars, walkVars, histVars, chargeVars>>

\* The monotonic clock advances, at any point of the code.
Tick ==
    /\ tpc # "raised"
    /\ \E d \in 1..MaxTick :
         /\ now + d <= MaxTime
         /\ now' = now + d
    /\ UNCHANGED <<iops_budget, last_iops_reset_time,
                   io_calls_since_last_reset, tpc, completions, slept>>
    /\ UNCHANGED <<fsVars, walkVars, histVars, chargeVars>>

(***************************************************************************)
(* The filesystem under parent_dir.  Inodes have fixed names and places;   *)
(* what each one is ("dir", "file", "link", or "gone") is the state.       *)
(*                                                                         *)
(*   1  parent_dir                                                         *)
(*   2    a                                                                *)
(*   5      f                                                              *)
(*   6      g                                                              *)
(*   7        .urb                                                         *)
(*   3    tlon                                                             *)
(*   4    xtlon_c                                                          *)
(*   8      p                                                              *)
(*   9        .urb                                                         *)
(*  10      q                                                              *)
(*  11        .urb                                                         *)
(*                                                                         *)
(* A name is a sequence of characters and a path is the sequence of names  *)
(* below parent_dir (<<>> is parent_dir itself).                           *)
(***************************************************************************)
Names == Seq(STRING)

Paths == Seq(Names)

Nodes == 1..11
ParentDir == 1
NoNode == 0

Parent == <<0, 1, 1, 1, 2, 2, 6, 4, 8, 4, 10>>

UrbName == <<".", "u", "r", "b">>

VolumeMarker == <<"t", "l", "o", "n", "_">>

NameOf == << <<>>,
             <<"a">>,
             <<"t", "l", "o", "n">>,
             <<"x", "t", "l", "o", "n", "_", "c">>,
             <<"f">>,
             <<"g">>,
             UrbName,
             <<"p">>,
             UrbName,
             <<"q">>,
             UrbName >>

\* st_size of each inode: distinct powers of five, so that a sum of sizes
\* tells which inodes were added and how often (up to four times each).
RECURSIVE Pow5(_)
Pow5(n) == IF n = 0 THEN 1 ELSE 5 * Pow5(n - 1)

SizeOf(n) == Pow5(n - 1)

\* st_mtime of each inode.
MtimeOf == <<6, 4, 11, 7, 1, 9, 3, 8, 2, 10, 5>>

\* errno values.
ENOENT == 2
EIO == 5
EACCES == 13
ENOTDIR == 20
ELOOP == 40
ESTALE == 116

\* The errors the environment injects into a query.
FaultErrnos == {EIO, EACCES, ESTALE}

NoFault == [errno |-> 0, func |-> "", in |-> ""]

Failed(e) == [err |-> e, node |-> NoNode]

Found(n) == [err |-> 0, node |-> n]

\* The entry of directory inode d called name, or NoNode.
ChildNamed(d, name) ==
    LET cs == {c \in Nodes : c # ParentDir /\ Parent[c] = d /\ NameOf[c] = name}
    IN  IF cs = {} THEN NoNode ELSE CHOOSE c \in cs : TRUE

\* Inode n is where its names say: it and the directories above it exist.
Reachable[n \in Nodes \cup {NoNode}] ==
    IF n = ParentDir THEN TRUE
    ELSE IF n = NoNode THEN FALSE
    ELSE /\ kind[n] # "gone"
         /\ kind[Parent[n]] = "dir"
         /\ Reachable[Parent[n]]

\* Follow symbolic link inode n, having followed `links` links already.
Follow[n \in Nodes, links \in Nat] ==
    IF links + 1 > SymloopMax THEN [err |-> ELOOP, node |-> NoNode, links |-> links]
    ELSE IF ~Reachable[target[n]]
         THEN [err |-> ENOENT, node |-> NoNode, links |-> links]
    ELSE IF kind[target[n]] = "link" THEN Follow[target[n], links + 1]
    ELSE [err |-> 0, node |-> target[n], links |-> links + 1]

\* Path resolution, as the OS does it: components i.. of path are looked up
\* from inode cur; a symbolic link is followed unless it is the last
\* component and follow is FALSE.
ResolveFrom[cur \in Nodes, path \in Paths, i \in Nat, links \in Nat, follow \in BOOLEAN] ==
    IF i > Len(path) THEN Found(cur)
    ELSE IF kind[cur] # "dir" THEN Failed(ENOTDIR)
    ELSE LET c == ChildNamed(cur, path[i]) IN
         IF c = NoNode \/ kind[c] = "gone" THEN Failed(ENOENT)
         ELSE IF kind[c] = "link" /\ (i < Len(path) \/ follow)
              THEN LET t == Follow[c, links] IN
                   IF t.err # 0 THEN Failed(t.err)
                   ELSE ResolveFrom[t.node, path, i + 1, t.links, follow]
         ELSE ResolveFrom[c, path, i + 1, links, follow]

Resolve(path, follow) == ResolveFrom[ParentDir, path, 1, 0, follow]

\* os.stat(path): follows symbolic links.
OsStat(path) == Resolve(path, TRUE)

\* os.stat(path, follow_symlinks=False).
OsLstat(path) == Resolve(path, FALSE)

\* The set s as a sequence in ascending order.
SortedSeq[s \in SUBSET Nodes] ==
    IF s = {} THEN <<>>
    ELSE LET m == CHOOSE x \in s : \A y \in s : x <= y
         IN  <<m>> \o SortedSeq[s \ {m}]

\* os.listdir(path): the names in the directory, or the error.
OsListdir(path) ==
    LET r == Resolve(path, TRUE) IN
    IF r.err # 0 THEN [err |-> r.err, names |-> <<>>]
    ELSE IF kind[r.node] # "dir" THEN [err |-> ENOTDIR, names |-> <<>>]
    ELSE LET cs == {c \in Nodes : c # ParentDir /\ Parent[c] = r.node
                                  /\ kind[c] # "gone"}
             ord == SortedSeq[cs]
         IN  [err |-> 0, names |-> [k \in 1..Len(ord) |-> NameOf[ord[k]]]]

\* os.path.isfile, os.path.isdir (both follow links) and os.path.islink:
\* any OSError of the underlying stat is answered with False.
OsIsfile(path) == LET r == Resolve(path, TRUE) IN r.err = 0 /\ kind[r.node] = "file"

OsIsdir(path) == LET r == Resolve(path, TRUE) IN r.err = 0 /\ kind[r.node] = "dir"

OsIslink(path) == LET r == Resolve(path, FALSE) IN r.err = 0 /\ kind[r.node] = "link"

\* os.path.join(path, c), made absolute: names from a listing are never
\* "." or "..", so abspath leaves the joined path as it is.
Join(path, name) == Append(path, name)

\* [os.path.abspath(os.path.join(path, c)) for c in names].
JoinAll[path \in Paths, names \in Seq(Names)] ==
    [k \in 1..Len(names) |-> Join(path, names[k])]

\* os.path.basename(path).
Basename(path) == IF path = <<>> THEN <<>> ELSE path[Len(path)]

\* `marker in name`: marker is a substring of name.
Contains(name, marker) ==
    \E k \in 0..(Len(name) - Len(marker)) :
        SubSeq(name, k + 1, k + Len(marker)) = marker

\* The outcomes of a query that can raise: what the filesystem answers, or
\* an injected OS error.
Errnos(real) ==
    {real.err} \cup (IF faultsLeft > 0 THEN FaultErrnos ELSE {})

\* What the filesystem answers to a query that cannot raise, or False for
\* an injected OS error (os.path.isdir and its kin swallow every OSError).
Answers(real) == {real} \cup (IF real /\ faultsLeft > 0 THEN {FALSE} ELSE {})

\* The query met an injected error e (not what the filesystem answers).
TakeFault(e, func, where) ==
    /\ faultsLeft' = faultsLeft - 1
    /\ lastFault' = [errno |-> e, func |-> func, in |-> where]

\* e is what the filesystem itself answers (real), or an injected error.
Injected(e, real, func, where) ==
    IF e = real.err THEN UNCHANGED <<faultsLeft, lastFault>>
    ELSE TakeFault(e, func, where)

\* ans is the filesystem's own answer (real), or False by an injected error.
InjectedFalse(ans, real, func, where) ==
    IF ans = real THEN UNCHANGED <<faultsLeft, lastFault>>
    ELSE TakeFault(EIO, func, where)

(***************************************************************************)
(* get_dir_info (lines 84-147): a stack of calls, each a frame.            *)
(* processing_time (lines 85, 146) is informational and left out.          *)
(***************************************************************************)

\* The DirInfo dataclass (lines 12-19); NoDirInfo stands for None.
DirInfo(path, size, latest, oldest, count) ==
    [path |-> path, size |-> size, latest_mtime |-> latest,
     oldest_mtime |-> oldest, entries_count |-> count]

NoDirInfo == DirInfo(<<>>, -1, 0, 0, 0)

\* A call of get_dir_info(path) about to run line 87.  vanished and
\* sub_entries are history: the files skipped at lines 118-120, and the
\* entries_count folded in from subdirectories at line 134.
NewFrame(path) ==
    [path |-> path, step |-> "stat", st_size |-> 0, st_mtime |-> 0,
     children |-> <<>>, i |-> 1, files |-> <<>>, dirs |-> <<>>,
     total_size |-> 0, latest_mtime |-> 0, oldest_mtime |-> 0,
     entries_count |-> 0, vanished |-> <<>>, sub_entries |-> 0]

Frames ==
    [path : Paths, step : STRING, st_size : Nat, st_mtime : Nat,
     children : Seq(Paths), i : Nat, files : Seq(Paths), dirs : Seq(Paths),
     total_size : Nat, latest_mtime : Nat, oldest_mtime : Nat,
     entries_count : Nat, vanished : Seq(Paths), sub_entries : Nat]

\* lines 108-111: the running totals start from the directory's own stat.
InitTotals(f) ==
    [f EXCEPT !.total_size = f.st_size,
              !.latest_mtime = f.st_mtime,
              !.oldest_mtime = f.st_mtime,
              !.entries_count = Len(f.files) + 1]

\* Leave the comprehensions and loops that have run out of elements:
\* lines 100-105 ("isfile"/"islink"), 106 ("isdir"), 113 ("lstat"),
\* 127 ("recurse"), then line 140 ("return").
NextStep[f \in Frames] ==
    IF f.step = "isfile" /\ f.i > Len(f.children)
    THEN NextStep[[f EXCEPT !.step = "isdir", !.i = 1]]
    ELSE IF f.step = "isdir" /\ f.i > Len(f.children)
    THEN NextStep[InitTotals([f EXCEPT !.step = "lstat", !.i = 1])]
    ELSE IF f.step = "lstat" /\ f.i > Len(f.files)
    THEN NextStep[[f EXCEPT !.step = "recurse", !.i = 1]]
    ELSE IF f.step = "recurse" /\ f.i > Len(f.dirs)
    THEN [f EXCEPT !.step = "return"]
    ELSE f

\* lines 121-125: fold a file's lstat into the totals.
FoldFile(f, n) ==
    [f EXCEPT !.total_size = f.total_size + SizeOf(n),
              !.latest_mtime = IF f.latest_mtime < MtimeOf[n]
                               THEN MtimeOf[n] ELSE f.latest_mtime,
              !.oldest_mtime = IF f.oldest_mtime > MtimeOf[n]
                               THEN MtimeOf[n] ELSE f.oldest_mtime,
              !.i = f.i + 1]

\* lines 118-120: the file is gone; continue.
SkipFile(f) ==
    [f EXCEPT !.vanished = Append(f.vanished, f.files[f.i]), !.i = f.i + 1]

\* The loop over dirs stalls at a subdirectory's result and never goes on
\* to the next one (variant of FoldDir).
FoldDirNoAdvance(f, r) == [f EXCEPT !.step = "stalled"]

\* lines 129-138: fold a subdirectory's DirInfo into the totals, or
\* continue when it is None.
FoldDir(f, r) ==
    IF r = NoDirInfo THEN [f EXCEPT !.i = f.i + 1]
    ELSE [f EXCEPT !.total_size = f.total_size + r.size,
                   !.entries_count = f.entries_count + r.entries_count,
                   !.sub_entries = f.sub_entries + r.entries_count,
                   !.latest_mtime = IF f.latest_mtime < r.latest_mtime
                                    THEN r.latest_mtime ELSE f.latest_mtime,
                   !.oldest_mtime = IF f.oldest_mtime > r.oldest_mtime
                                    THEN r.oldest_mtime ELSE f.oldest_mtime,
                   !.i = f.i + 1]

\* A DirInfo that carries no name (variant of Result).
ResultUnnamed(f) ==
    DirInfo(<<>>, f.total_size, f.latest_mtime, f.oldest_mtime,
            f.entries_count)

\* lines 140-147: the DirInfo a finished call returns.
Result(f) ==
    DirInfo(Basename(f.path), f.total_size, f.latest_mtime, f.oldest_mtime,
            f.entries_count)

Top == stack[Len(stack)]

SetTop(f) == [stack EXCEPT ![Len(stack)] = f]

\* The top-level directory get_subdirs_info is at (line 158's c).
CurrentDir == gsi.dirs[gsi.i]

\* The exception classes: every errno of a filesystem call comes as an
\* OSError; PermissionError is the subclass for EACCES.
IsOSError(e) == e # 0

IsPermissionError(e) == e = EACCES

\* A handler that ends the scan quietly whatever the error (mutant of
\* Handler).
HandlerSwallowsAll(e) == "return"

\* lines 179-198: get_subdirs_info's handlers, tried in order.  Every error
\* of a filesystem call is an OSError, PermissionError included, so the
\* first clause takes it: errno 116 ends the generator, anything else is
\* raised again, and the second clause is never reached.
Handler(e) ==
    IF IsOSError(e)                     \* except OSError as e
    THEN (IF e = ESTALE THEN "return" ELSE "raise")
    ELSE IF IsPermissionError(e)        \* except PermissionError as e
    THEN (IF e = EACCES THEN "return" ELSE "raise")
    ELSE "raise"

\* An OSError e travels up to get_subdirs_info's handlers (no get_dir_info
\* frame catches it); `measuring` tells whether a top-level directory was
\* being measured.  Raised again, it leaves main (no handler, lines 234-270).
RaiseInScan(e, measuring) ==
    /\ stack' = <<>>
    /\ IF Handler(e) = "return"
       THEN /\ pc' = "cleanup"
            /\ exc' = exc
            /\ staleDir' = IF measuring THEN Basename(CurrentDir) ELSE staleDir
       ELSE /\ pc' = "crashed"
            /\ exc' = e
            /\ staleDir' = staleDir

\* A get_dir_info call returns r: to the call below it (line 128), or to
\* get_subdirs_info (lines 165, 171, 176).
ReturnTo(r) ==
    IF Len(stack) = 1
    THEN /\ stack' = <<>>
         /\ ret' = r
         /\ pc' = "gsi_yield"
    ELSE /\ stack' = Append(SubSeq(stack, 1, Len(stack) - 2),
                            NextStep[FoldDir(stack[Len(stack) - 1], r)])
         /\ UNCHANGED <<ret, pc>>

\* A filesystem query made directly, not through do_iops_action (variant
\* of ChargedQuery).
UnchargedQuery ==
    /\ fs_queries' = fs_queries + 1
    /\ UNCHANGED iops_calls

\* self.do_iops_action(func, ...): one call of do_iops_action, in which
\* func, one filesystem query, is performed (line 58).
ChargedQuery ==
    /\ iops_calls' = iops_calls + 1
    /\ fs_queries' = fs_queries + 1

\* line 87: os.stat(path); FileNotFoundError returns None (lines 88-90).
GdiStat ==
    /\ pc = "gdi" /\ Top.step = "stat"
    /\ LET real == OsStat(Top.path) IN
       \E e \in Errnos(real) :
          /\ Injected(e, real, "stat", "get_dir_info")
          /\ IF e = 0
             THEN /\ stack' = SetTop([Top EXCEPT !.st_size = SizeOf(real.node),
                                                 !.st_mtime = MtimeOf[real.node],
                                                 !.step = "listdir"])
                  /\ UNCHANGED <<pc, ret, exc, staleDir>>
             ELSE IF e = ENOENT
             THEN ReturnTo(NoDirInfo) /\ UNCHANGED <<exc, staleDir>>
             ELSE RaiseInScan(e, TRUE) /\ UNCHANGED ret
    /\ UNCHANGED <<throttleVars, kind, target, removalsLeft, cyclesLeft, gsi, urb,
                   active_directories, current_directories, series,
                   yieldedLog, retractedLog>>
    /\ ChargedQuery

\* lines 93-96: os.listdir(path), outside any try.
GdiListdir ==
    /\ pc = "gdi" /\ Top.step = "listdir"
    /\ LET real == OsListdir(Top.path) IN
       \E e \in Errnos(real) :
          /\ Injected(e, real, "listdir", "get_dir_info")
          /\ IF e = 0
             THEN /\ stack' = SetTop(NextStep[
                        [Top EXCEPT !.children =
                                      JoinAll[Top.path, real.names],
                                    !.step = "isfile", !.i = 1]])
                  /\ UNCHANGED <<pc, exc, staleDir>>
             ELSE RaiseInScan(e, TRUE)
    /\ UNCHANGED <<throttleVars, kind, target, removalsLeft, cyclesLeft, gsi, urb,
                   ret, active_directories, current_directories, series,
                   yieldedLog, retractedLog>>
    /\ ChargedQuery

\* line 103: os.path.isfile(c); when it is False, line 104 is asked next.
GdiIsfile ==
    /\ pc = "gdi" /\ Top.step = "isfile"
    /\ LET c == Top.children[Top.i]
           real == OsIsfile(c) IN
       \E ans \in Answers(real) :
          /\ InjectedFalse(ans, real, "isfile", "get_dir_info")
          /\ stack' = SetTop(
                IF ans
                THEN NextStep[[Top EXCEPT !.files = Append(Top.files, c),
                                          !.i = Top.i + 1]]
                ELSE [Top EXCEPT !.step = "islink"])
    /\ UNCHANGED <<throttleVars, kind, target, removalsLeft, cyclesLeft, gsi, urb,
                   pc, ret, exc, active_directories, current_directories,
                   series, yieldedLog, retractedLog, staleDir>>
    /\ ChargedQuery

\* line 104: os.path.islink(c).
GdiIslink ==
    /\ pc = "gdi" /\ Top.step = "islink"
    /\ LET c == Top.children[Top.i]
           real == OsIslink(c) IN
       \E ans \in Answers(real) :
          /\ InjectedFalse(ans, real, "islink", "get_dir_info")
          /\ stack' = SetTop(NextStep[
                [Top EXCEPT !.files = IF ans THEN Append(Top.files, c)
                                      ELSE Top.files,
                            !.step = "isfile",
                            !.i = Top.i + 1]])
    /\ UNCHANGED <<throttleVars, kind, target, removalsLeft, cyclesLeft, gsi, urb,
                   pc, ret, exc, active_directories, current_directories,
                   series, yieldedLog, retractedLog, staleDir>>
    /\ ChargedQuery

\* line 106: os.path.isdir(c).
GdiIsdir ==
    /\ pc = "gdi" /\ Top.step = "isdir"
    /\ LET c == Top.children[Top.i]
           real == OsIsdir(c) IN
       \E ans \in Answers(real) :
          /\ InjectedFalse(ans, real, "isdir", "get_dir_info")
          /\ stack' = SetTop(NextStep[
                [Top EXCEPT !.dirs = IF ans THEN Append(Top.dirs, c)
                                     ELSE Top.dirs,
                            !.i = Top.i + 1]])
    /\ UNCHANGED <<throttleVars, kind, target, removalsLeft, cyclesLeft, gsi, urb,
                   pc, ret, exc, active_directories, current_directories,
                   series, yieldedLog, retractedLog, staleDir>>
    /\ ChargedQuery

\* lines 113-125: os.stat(f, follow_symlinks=False) and the fold.
GdiLstat ==
    /\ pc = "gdi" /\ Top.step = "lstat"
    /\ LET real == OsLstat(Top.files[Top.i]) IN
       \E e \in Errnos(real) :
          /\ Injected(e, real, "stat", "get_dir_info")
          /\ IF e = 0
             THEN /\ stack' = SetTop(NextStep[FoldFile(Top, real.node)])
                  /\ UNCHANGED <<pc, exc, staleDir>>
             ELSE IF e = ENOENT
             THEN /\ stack' = SetTop(NextStep[SkipFile(Top)])
                  /\ UNCHANGED <<pc, exc, staleDir>>
             ELSE RaiseInScan(e, TRUE)
    /\ UNCHANGED <<throttleVars, kind, target, removalsLeft, cyclesLeft, gsi, urb,
                   ret, active_directories, current_directories, series,
                   yieldedLog, retractedLog>>
    /\ ChargedQuery

\* line 128: the recursive call.
GdiRecurse ==
    /\ pc = "gdi" /\ Top.step = "recurse"
    /\ stack' = Append(stack, NewFrame(Top.dirs[Top.i]))
    /\ UNCHANGED <<throttleVars, fsVars, cyclesLeft, gsi, urb, pc, ret, exc,
                   active_directories, current_directories, series, histVars>>
    /\ UNCHANGED chargeVars

\* lines 140-147: return the DirInfo.
GdiReturn ==
    /\ pc = "gdi" /\ Top.step = "return"
    /\ ReturnTo(Result(Top))
    /\ UNCHANGED <<throttleVars, fsVars, cyclesLeft, gsi, urb, exc,
                   active_directories, current_directories, series, histVars>>
    /\ UNCHANGED chargeVars

(***************************************************************************)
(* get_subdirs_info (lines 149-198), find_urb_directory (lines 62-82) and  *)
(* main's polling loop (lines 231-270).                                    *)
(***************************************************************************)

NoLocals == [base |-> <<>>, children |-> <<>>, dirs |-> <<>>, i |-> 1]

\* get_subdirs_info goes on to the i-th directory, or is exhausted.
GsiAt(g) == IF g.i > Len(g.dirs) THEN "cleanup" ELSE "gsi_next"

\* lines 234-238: a cycle starts: a fresh walker, and the generator is made.
StartCycle ==
    /\ pc = "loop"
    /\ cyclesLeft > 0
    /\ cyclesLeft' = cyclesLeft - 1
    /\ current_directories' = {}
    /\ gsi' = NoLocals
    /\ urb' = NoLocals
    /\ ret' = NoDirInfo
    /\ pc' = "gsi_listdir"
    /\ yieldedLog' = Append(yieldedLog, {})
    /\ staleDir' = <<>>
    /\ lastFault' = NoFault
    /\ UNCHANGED <<throttleVars, fsVars, stack, exc, active_directories, series,
                   retractedLog>>
    /\ iops_calls' = 0
    /\ fs_queries' = 0

\* lines 151-154: os.listdir(dir_path).
GsiListdir ==
    /\ pc = "gsi_listdir"
    /\ LET real == OsListdir(<<>>) IN
       \E e \in Errnos(real) :
          /\ Injected(e, real, "listdir", "get_subdirs_info")
          /\ IF e = 0
             THEN /\ gsi' = [gsi EXCEPT !.children =
                                JoinAll[<<>>, real.names]]
                  /\ pc' = IF real.names = <<>> THEN "cleanup" ELSE "gsi_isdir"
                  /\ UNCHANGED <<stack, exc, staleDir>>
             ELSE RaiseInScan(e, FALSE) /\ UNCHANGED gsi
    /\ UNCHANGED <<throttleVars, kind, target, removalsLeft, cyclesLeft, urb, ret,
                   active_directories, current_directories, series,
                   yieldedLog, retractedLog>>
    /\ ChargedQuery

\* line 156: os.path.isdir(c), child by child.
GsiIsdir ==
    /\ pc = "gsi_isdir"
    /\ LET c == gsi.children[gsi.i]
           real == OsIsdir(c) IN
       \E ans \in Answers(real) :
          /\ InjectedFalse(ans, real, "isdir", "get_subdirs_info")
          /\ LET dirs == IF ans THEN Append(gsi.dirs, c) ELSE gsi.dirs IN
             IF gsi.i < Len(gsi.children)
             THEN /\ gsi' = [gsi EXCEPT !.dirs = dirs, !.i = gsi.i + 1]
                  /\ pc' = pc
             ELSE /\ gsi' = [gsi EXCEPT !.dirs = dirs, !.i = 1]
                  /\ pc' = GsiAt([dirs |-> dirs, i |-> 1])
    /\ UNCHANGED <<throttleVars, kind, target, removalsLeft, cyclesLeft, urb,
                   stack, ret, exc, active_directories, current_directories,
                   series, yieldedLog, retractedLog, staleDir>>
    /\ ChargedQuery

\* A dispatch that never looks for the .urb directory (variant of IsVolume).
IsVolumeNever(dir_name) == FALSE

\* A dispatch that looks for the .urb directory in every top-level
\* directory (variant of IsVolume).
IsVolumeAlways(dir_name) == TRUE

\* line 162: "tlon_" in dir_name.
IsVolume(dir_name) == Contains(dir_name, VolumeMarker)

\* lines 158-163, 174-176: the next directory c: a tlon_ volume is searched
\* for its .urb directory, anything else is measured.
GsiDispatch ==
    /\ pc = "gsi_next"
    /\ IF IsVolume(Basename(CurrentDir))
       THEN /\ urb' = [NoLocals EXCEPT !.base = CurrentDir]
            /\ pc' = "urb_listdir"
            /\ UNCHANGED stack
       ELSE /\ stack' = <<NewFrame(CurrentDir)>>
            /\ pc' = "gdi"
            /\ UNCHANGED urb
    /\ UNCHANGED <<throttleVars, fsVars, cyclesLeft, gsi, ret, exc,
                   active_directories, current_directories, series, histVars>>
    /\ UNCHANGED chargeVars

\* find_urb_directory returns d, or None (<<>>): lines 164-165 measure the
\* directory found, lines 169-171 the whole volume.
UrbReturns(d) ==
    /\ stack' = <<NewFrame(IF d # <<>> THEN d ELSE CurrentDir)>>
    /\ pc' = "gdi"

\* lines 67-71, 81-82: os.listdir(base_path); any OSError returns None.
UrbListdir ==
    /\ pc = "urb_listdir"
    /\ LET real == OsListdir(urb.base) IN
       \E e \in Errnos(real) :
          /\ Injected(e, real, "listdir", "find_urb_directory")
          /\ IF e = 0 /\ real.names # <<>>
             THEN /\ urb' = [urb EXCEPT !.children =
                                JoinAll[urb.base, real.names]]
                  /\ pc' = "urb_isdir"
                  /\ UNCHANGED stack
             ELSE UrbReturns(<<>>) /\ UNCHANGED urb
    /\ UNCHANGED <<throttleVars, kind, target, removalsLeft, cyclesLeft, gsi, ret,
                   exc, active_directories, current_directories, series,
                   yieldedLog, retractedLog, staleDir>>
    /\ ChargedQuery

\* line 73: os.path.isdir(c), child by child.
UrbIsdir ==
    /\ pc = "urb_isdir"
    /\ LET c == urb.children[urb.i]
           real == OsIsdir(c) IN
       \E ans \in Answers(real) :
          /\ InjectedFalse(ans, real, "isdir", "find_urb_directory")
          /\ LET dirs == IF ans THEN Append(urb.dirs, c) ELSE urb.dirs IN
             IF urb.i < Len(urb.children)
             THEN /\ urb' = [urb EXCEPT !.dirs = dirs, !.i = urb.i + 1]
                  /\ UNCHANGED <<pc, stack>>
             ELSE IF dirs # <<>>
             THEN /\ urb' = [urb EXCEPT !.dirs = dirs, !.i = 1]
                  /\ pc' = "urb_probe"
                  /\ UNCHANGED stack
             ELSE /\ urb' = [urb EXCEPT !.dirs = dirs, !.i = 1]
                  /\ UrbReturns(<<>>)
    /\ UNCHANGED <<throttleVars, kind, target, removalsLeft, cyclesLeft, gsi, ret,
                   exc, active_directories, current_directories, series,
                   yieldedLog, retractedLog, staleDir>>
    /\ ChargedQuery

\* lines 75-80: os.path.isdir(d/.urb) for each directory d in turn; the
\* first d that has one is returned, None when none has.
UrbProbe ==
    /\ pc = "urb_probe"
    /\ LET d == urb.dirs[urb.i]
           real == OsIsdir(Join(d, UrbName)) IN
       \E ans \in Answers(real) :
          /\ InjectedFalse(ans, real, "isdir", "find_urb_directory")
          /\ IF ans
             THEN UrbReturns(d) /\ UNCHANGED urb
             ELSE IF urb.i < Len(urb.dirs)
             THEN /\ urb' = [urb EXCEPT !.i = urb.i + 1]
                  /\ UNCHANGED <<pc, stack>>
             ELSE UrbReturns(<<>>) /\ UNCHANGED urb
    /\ UNCHANGED <<throttleVars, kind, target, removalsLeft, cyclesLeft, gsi, ret,
                   exc, active_directories, current_directories, series,
                   yieldedLog, retractedLog, staleDir>>
    /\ ChargedQuery

\* A removal that removes nothing (variant of Without).
WithoutNone(s, names) == s

\* The series with the ones labelled by a name in `names` removed.
Without(s, names) == [n \in (DOMAIN s) \ names |-> s[n]]

\* The series with the one labelled name set to info.
WithSeries(s, name, info) ==
    [n \in (DOMAIN s) \cup {name} |-> IF n = name THEN info ELSE s[n]]

\* lines 166-168, 172-173, 177-178: `if dirinfo: yield (dir_name, dirinfo)`,
\* and main's loop body for the pair (lines 239-252): the name joins
\* current_directories and the gauges labelled with it are set.
GsiYield ==
    /\ pc = "gsi_yield"
    /\ LET dir_name == Basename(CurrentDir) IN
       IF ret # NoDirInfo
       THEN /\ current_directories' = current_directories \cup {dir_name}
            /\ series' = WithSeries(series, dir_name, ret)
            /\ yieldedLog' = [yieldedLog EXCEPT ![Len(yieldedLog)] =
                                 @ \cup {dir_name}]
       ELSE UNCHANGED <<current_directories, series, yieldedLog>>
    /\ gsi' = [gsi EXCEPT !.i = gsi.i + 1]
    /\ pc' = GsiAt([gsi EXCEPT !.i = gsi.i + 1])
    /\ UNCHANGED <<throttleVars, fsVars, cyclesLeft, urb, stack, ret, exc,
                   active_directories, retractedLog, lastFault, staleDir>>
    /\ UNCHANGED chargeVars

\* Stale names computed the wrong way round (mutant of StaleDirectories).
StaleDirectoriesReversed == current_directories \ active_directories

\* line 255: stale_directories.
StaleDirectories == active_directories \ current_directories

\* lines 254-270: the generator is exhausted: the series of the stale
\* names are removed (a KeyError for a name without series is passed over),
\* active_directories is replaced, and the loop sleeps.
Cleanup ==
    /\ pc = "cleanup"
    /\ series' = Without(series, StaleDirectories)
    /\ retractedLog' = Append(retractedLog, (DOMAIN series) \ (DOMAIN series'))
    /\ active_directories' = current_directories
    /\ pc' = "loop"
    /\ UNCHANGED <<throttleVars, fsVars, cyclesLeft, gsi, urb, stack, ret, exc,
                   current_directories, yieldedLog, lastFault, staleDir>>
    /\ UNCHANGED chargeVars

\* Another process removes (or renames away) an entry under parent_dir.
Remove ==
    /\ removalsLeft > 0
    /\ pc # "crashed"
    /\ ~(pc = "loop" /\ cyclesLeft = 0)
    /\ \E n \in Nodes \ {ParentDir} :
         /\ Reachable[n]
         /\ kind' = [kind EXCEPT ![n] = "gone"]
    /\ removalsLeft' = removalsLeft - 1
    /\ UNCHANGED <<throttleVars, target, faultsLeft, walkVars, histVars>>
    /\ UNCHANGED chargeVars

WalkerNext ==
    \/ StartCycle
    \/ GsiListdir
    \/ GsiIsdir
    \/ GsiDispatch
    \/ UrbListdir
    \/ UrbIsdir
    \/ UrbProbe
    \/ GdiStat
    \/ GdiListdir
    \/ GdiIsfile
    \/ GdiIslink
    \/ GdiIsdir
    \/ GdiLstat
    \/ GdiRecurse
    \/ GdiReturn
    \/ GsiYield
    \/ Cleanup

(***************************************************************************)
(* Initial states and specifications.                                      *)
(***************************************************************************)

\* lines 25-32: __init__, with the clock at 0.
FreshThrottle(budget) ==
    /\ now = 0
    /\ iops_budget = budget
    /\ last_iops_reset_time = 0
    /\ io_calls_since_last_reset = 0
    /\ tpc = "idle"
    /\ completions = <<>>
    /\ slept = NoSleep

\* lines 227-234: main before its first cycle, left to run `cycles` cycles.
MainStarts(cycles) ==
    /\ pc = "loop"
    /\ cyclesLeft = cycles
    /\ gsi = NoLocals
    /\ urb = NoLocals
    /\ stack = <<>>
    /\ ret = NoDirInfo
    /\ exc = 0
    /\ active_directories = {}
    /\ current_directories = {}
    /\ series = <<>>
    /\ yieldedLog = <<>>
    /\ retractedLog = <<>>
    /\ lastFault = NoFault
    /\ staleDir = <<>>
    /\ iops_calls = 0
    /\ fs_queries = 0

\* A tree: what inodes 3 and 5..11 are, and where the link 5 points
\* (NoNode: nowhere).  parent_dir, a and xtlon_c are directories.
Tree(k3, k5, t5, k6, k7, k8, k9, k10, k11) ==
    /\ kind = <<"dir", "dir", k3, "dir", k5, k6, k7, k8, k9, k10, k11>>
    /\ target = [n \in Nodes |-> IF n = 5 /\ k5 = "link" THEN t5 ELSE NoNode]

\* The trees of the specifications in which the environment acts.
SmallTrees ==
    \E k3 \in {"dir", "file"}, k5 \in {"file", "link"}, k9 \in {"dir", "gone"} :
        Tree(k3, k5, 6, "dir", "file", "dir", k9, "gone", "gone")

\* The trees of the specification in which nothing changes: f is a file, a
\* link (dangling, to its own directory a, to tlon outside a, to its sibling
\* g, to g's entry) or absent; tlon is a directory; g is a directory or a
\* file; g's
\* entry .urb is a directory or a file; the volume xtlon_c is empty or holds
\* p, and p/.urb is a directory, a file or absent; q is absent, an empty
\* directory, or holds a directory .urb.
StaticTrees ==
    \E k3 \in {"dir"}, k5 \in {"file", "link", "gone"},
       t5 \in {NoNode, 2, 3, 6, 7},
       k6 \in {"dir", "file"}, k7 \in {"dir", "file"},
       k8 \in {"dir", "gone"}, k9 \in {"dir", "file", "gone"},
       k10 \in {"dir", "gone"}, k11 \in {"dir", "gone"} :
        /\ (k5 # "link" => t5 = NoNode)
        /\ (k10 = "gone" => k11 = "gone")
        /\ Tree(k3, k5, t5, k6, k7, k8, k9, k10, k11)

\* The throttle alone: operations are charged back-to-back.
InitThrottle ==
    /\ \E b \in 0..MaxBudget : FreshThrottle(b)
    /\ MainStarts(0)
    /\ Tree("gone", "gone", NoNode, "gone", "gone", "gone", "gone", "gone", "gone")
    /\ removalsLeft = 0
    /\ faultsLeft = 0

NextThrottle ==
    \/ CheckWindow
    \/ ResetExpired
    \/ CheckBudget
    \/ ForcedWait
    \/ ResetAfterWait
    \/ CallReturns
    \/ CallRaises
    \/ Tick

SpecThrottle == InitThrottle /\ [][NextThrottle]_vars

\* The polling loop over a tree from which other processes remove entries.
Init ==
    /\ FreshThrottle(0)
    /\ MainStarts(MaxCycles)
    /\ SmallTrees
    /\ removalsLeft = MaxRemovals
    /\ faultsLeft = 0

Next == WalkerNext \/ Remove

Spec == Init /\ [][Next]_vars

\* The polling loop over a tree whose queries can fail with an OS error.
InitFaults ==
    /\ FreshThrottle(0)
    /\ MainStarts(MaxCycles)
    /\ SmallTrees
    /\ removalsLeft = 0
    /\ faultsLeft = MaxFaults

SpecFaults == InitFaults /\ [][WalkerNext]_vars

\* One cycle over a tree that nobody changes and whose queries do not fail.
\* The loop is the only thread and nothing in it blocks, so it keeps
\* taking steps.
InitStatic ==
    /\ FreshThrottle(0)
    /\ MainStarts(1)
    /\ StaticTrees
    /\ removalsLeft = 0
    /\ faultsLeft = 0

SpecStatic == InitStatic /\ [][WalkerNext]_vars /\ WF_vars(WalkerNext)

(***************************************************************************)
(* The throttle's claims.                                                  *)
(***************************************************************************)

\* The largest number of recorded completions that fit in one closed
\* interval of one second of the clock.
CompletedInAnySecond ==
    LET n == Len(completions)
        spans == {<<i, j>> \in (1..n) \X (1..n) :
                     i <= j /\ completions[j] - completions[i] <= ONE_S_IN_NS}
    IN  IF spans = {} THEN 0
        ELSE CHOOSE c \in 1..n :
                /\ \E p \in spans : p[2] - p[1] + 1 = c
                /\ \A p \in spans : p[2] - p[1] + 1 <= c

C2_RacesNeverSurface == ~(pc = "crashed" /\ exc = ENOENT)

\* A get_dir_info call that is about to return its snapshot (line 140).
Returning == {k \in 1..Len(stack) : stack[k].step = "return"}

\* C3 as stated: the snapshot get_dir_info returns does not count the files
\* that were gone at their metadata query: entries_count is this directory,
\* the files whose metadata was folded in, and the subdirectories' counts.
C3_VanishedFileExcluded ==
    \A k \in Returning :
        stack[k].entries_count =
            1 + (Len(stack[k].files) - Len(stack[k].vanished))
              + stack[k].sub_entries

\* C4 as stated: a query that fails with errno 13 never takes the error out
\* of the scan cycle.
C4_PermissionDeniedBenign == ~(pc = "crashed" /\ exc = EACCES)

\* The top-level directories other than the one whose measurement met the
\* stale handle, that still are directories.
OtherDirs ==
    {Basename(gsi.dirs[k]) : k \in {j \in 1..Len(gsi.dirs) :
        Basename(gsi.dirs[j]) # staleDir /\ OsIsdir(gsi.dirs[j])}}

\* C5 as stated: at the end of a cycle in which measuring one top-level
\* directory met errno 116, every other top-level directory was yielded in
\* that cycle and none of them was retracted.
C5_StaleHandleLocal ==
    (pc = "loop" /\ staleDir # <<>>) =>
        /\ OtherDirs \subseteq current_directories
        /\ OtherDirs \cap retractedLog[Len(retractedLog)] = {}

\* An injected error other than not-found, stale-handle and
\* permission-denied was raised by a query (os.stat or os.listdir).
OtherErrorRaised ==
    /\ lastFault.errno = EIO
    /\ lastFault.func \in {"stat", "listdir"}

\* C6 as stated: such an error raised in get_subdirs_info, get_dir_info or
\* find_urb_directory aborts the scan by propagating to the caller.
C6_OtherErrorsPropagate ==
    OtherErrorRaised => (pc = "crashed" /\ exc = EIO)

\* C6 amended: such an error raised in get_subdirs_info or get_dir_info
\* aborts the scan by propagating to the caller (find_urb_directory catches
\* its own, lines 81-82).
C6_OtherErrorsPropagateOutsideUrb ==
    (OtherErrorRaised /\ lastFault.in # "find_urb_directory")
        => (pc = "crashed" /\ exc = EIO)

\* C6 witness: os.listdir inside get_dir_info failed with EIO and the error
\* left the scan.
C6_Witness ==
    /\ pc = "crashed"
    /\ exc = EIO
    /\ lastFault = [errno |-> EIO, func |-> "listdir", in |-> "get_dir_info"]

(***************************************************************************)
(* The polling loop's claims.                                              *)
(***************************************************************************)

\* C7: the names retracted at the end of cycle k are the names yielded in
\* cycle k-1 (none before the first cycle) less the names yielded in cycle
\* k, and between cycles active_directories is what the last cycle yielded.
C7_Reconciliation ==
    /\ \A k \in 1..Len(retractedLog) :
          retractedLog[k] =
              (IF k = 1 THEN {} ELSE yieldedLog[k - 1]) \ yieldedLog[k]
    /\ (pc = "loop" /\ yieldedLog # <<>>) =>
          active_directories = yieldedLog[Len(yieldedLog)]

\* C7 witness: three cycles yield {a, tlon, xtlon_c}, {a, xtlon_c},
\* {a, xtlon_c} and retract {}, {tlon}, {}.
C7_Witness ==
    /\ pc = "loop"
    /\ yieldedLog = << {NameOf[2], NameOf[3], NameOf[4]},
                       {NameOf[2], NameOf[4]},
                       {NameOf[2], NameOf[4]} >>
    /\ retractedLog = << {}, {NameOf[3]}, {} >>

(***************************************************************************)
(* get_dir_info's claims on a tree that does not change.                   *)
(***************************************************************************)

\* Inode n is in the directory tree rooted at inode r: below r through
\* directories only, no symbolic link resolved.
RECURSIVE InTree(_, _)
InTree(n, r) ==
    IF n = r THEN TRUE
    ELSE IF n = ParentDir \/ n = NoNode THEN FALSE
    ELSE /\ kind[n] # "gone"
         /\ kind[Parent[n]] = "dir"
         /\ InTree(Parent[n], r)

RECURSIVE SumOfSizes(_)
SumOfSizes(s) ==
    IF s = {} THEN 0
    ELSE LET n == CHOOSE x \in s : TRUE IN SizeOf(n) + SumOfSizes(s \ {n})

\* What the tree rooted at path holds: every directory, file and symbolic
\* link in it once, links by their own size and mtime.
TrueDirInfo(path) ==
    LET r == Resolve(path, TRUE).node
        s == {n \in Nodes : InTree(n, r)}
        mtimes == {MtimeOf[n] : n \in s}
    IN  DirInfo(Basename(path), SumOfSizes(s),
                CHOOSE m \in mtimes : \A x \in mtimes : x <= m,
                CHOOSE m \in mtimes : \A x \in mtimes : m <= x,
                Cardinality(s))

\* C8 as stated: on an unchanging tree, the snapshot a get_dir_info call
\* returns is the sum of sizes, the count, and the latest and oldest mtime
\* of the directories, files and symbolic links of the tree rooted at its
\* path.
C8_AggregationCorrect ==
    \A k \in Returning : Result(stack[k]) = TrueDirInfo(stack[k].path)

\* C9 as stated: no child is both folded in as file-like and recursed into
\* as directory-like, and no get_dir_info call made by the recursion (line
\* 128) is on a symbolic link.
C9_LinksNotFollowed ==
    \A k \in 1..Len(stack) :
        /\ \A i \in 1..Len(stack[k].dirs), j \in 1..Len(stack[k].files) :
              stack[k].dirs[i] # stack[k].files[j]
        /\ k > 1 => ~OsIslink(stack[k].path)

\* The one scan cycle has run to completion.
ScanDone == pc = "loop" /\ cyclesLeft = 0

TopLevelDirs ==
    {c \in {<<NameOf[n]>> : n \in Nodes \ {ParentDir}} :
        Resolve(c, TRUE).err = 0 /\ Parent[Resolve(c, FALSE).node] = ParentDir
        /\ OsIsdir(c)}

HasMarker(c) == Contains(Basename(c), VolumeMarker)

\* The children of directory v, in listing order, that are directories and
\* hold a directory .urb.
UrbChildren(v) ==
    LET names == OsListdir(v).names
        hits == {k \in 1..Len(names) :
                    /\ OsIsdir(Join(v, names[k]))
                    /\ OsIsdir(Join(Join(v, names[k]), UrbName))}
    IN  [k \in 1..Cardinality(hits) |-> Join(v, names[SortedSeq[hits][k]])]

SameAggregates(x, y) ==
    /\ x.size = y.size
    /\ x.entries_count = y.entries_count
    /\ x.latest_mtime = y.latest_mtime
    /\ x.oldest_mtime = y.oldest_mtime

\* C11: when the scan is done, every top-level directory whose name holds
\* "tlon_" and that has a child directory holding a directory .urb is
\* published under its own name, with the size, entries_count and mtimes
\* of the first such child (first in listing order).
C11_VolumeRedirection ==
    ScanDone =>
        \A v \in TopLevelDirs :
            (HasMarker(v) /\ UrbChildren(v) # <<>>) =>
                /\ Basename(v) \in DOMAIN series
                /\ SameAggregates(series[Basename(v)],
                                  TrueDirInfo(UrbChildren(v)[1]))

\* C11 witness: the volume xtlon_c holds p and q, each with a directory
\* .urb, and is published with p's two entries.
C11_Witness ==
    /\ ScanDone
    /\ Len(UrbChildren(<<NameOf[4]>>)) = 2
    /\ NameOf[4] \in DOMAIN series
    /\ series[NameOf[4]].entries_count = 2
    /\ series[NameOf[4]].size = SizeOf(8) + SizeOf(9)

\* a/f is not a symbolic link to a directory.
NoLinkToDir == ~(OsIslink(<<NameOf[2], NameOf[5]>>)
                 /\ OsIsdir(<<NameOf[2], NameOf[5]>>))

\* C12: a top-level directory whose name holds "tlon_" but none of whose
\* child directories holds a directory .urb is published with the
\* aggregates of the volume directory itself; for a top-level directory
\* whose name does not hold "tlon_", get_dir_info is called on the directory
\* itself, whatever its children hold, and (there being no link to a
\* directory in it) it is published with its own aggregates.
C12_VolumeFallback ==
    /\ (pc = "gdi" /\ ~HasMarker(CurrentDir)) => stack[1].path = CurrentDir
    /\ ScanDone =>
          \A v \in TopLevelDirs :
              /\ (HasMarker(v) /\ UrbChildren(v) = <<>>) =>
                    /\ Basename(v) \in DOMAIN series
                    /\ SameAggregates(series[Basename(v)], TrueDirInfo(v))
              /\ (~HasMarker(v) /\ NoLinkToDir) =>
                    /\ Basename(v) \in DOMAIN series
                    /\ SameAggregates(series[Basename(v)], TrueDirInfo(v))

\* C12 witness: xtlon_c holds p, whose .urb is a file, and is published
\* with its own three entries; a holds g, which holds a directory .urb, and
\* is published with its own entries.
C12_Witness ==
    /\ ScanDone
    /\ kind[8] = "dir" /\ kind[9] = "file" /\ kind[10] = "gone"
    /\ series[NameOf[4]].entries_count = 3
    /\ kind[5] = "file" /\ kind[6] = "dir" /\ kind[7] = "dir"
    /\ series[NameOf[2]].entries_count = 4

(***************************************************************************)
(* do_iops_action's claims, call by call.                                  *)
(***************************************************************************)

\* C13 as stated: every call of do_iops_action runs the operation (line
\* 58), waiting first or not: no call is left before the operation has run.
C13_OperationExecuted == tpc # "raised"

\* C15 as stated: the step that runs the operation (line 58) and ends the
\* call adds one to the consumed-operations counter, whether the operation
\* returns or raises.
C15_EveryOutcomeCounted ==
    [][(tpc = "call" /\ tpc' = "idle") =>
          io_calls_since_last_reset' = io_calls_since_last_reset + 1]_vars

\* C16 as stated: a call that finds the counter over the budget sleeps, and
\* when the sleep ends more than a second has passed since the window start
\* it held; it then resets the window to (now, 0), and the operation is
\* about to run in a window that is not over budget.
C16_ForcedWaitCrosses ==
    [][/\ (tpc = "wait" /\ tpc' # "wait") =>
             /\ tpc' = "waited"
             /\ now' - last_iops_reset_time > ONE_S_IN_NS
       /\ (tpc = "waited" /\ tpc' # "waited") =>
             /\ tpc' = "call"
             /\ last_iops_reset_time' = now'
             /\ io_calls_since_last_reset' = 0
       /\ tpc' = "call" => ~OverBudget']_vars

\* C20 as stated: the wait period computed at lines 51-53 is strictly
\* positive, however the clock advanced since the expiry test of line 41.
C20_WaitPositive == slept # NoSleep => slept.wait > 0

(***************************************************************************)
(* get_dir_info's claim about the modification times.                      *)
(***************************************************************************)

\* The modification times of the directory at path and of everything in
\* its tree.
MtimesUnder(path) ==
    {MtimeOf[n] : n \in {x \in Nodes : InTree(x, Resolve(path, TRUE).node)}}

\* C17 as stated: in the snapshot a get_dir_info call returns, oldest_mtime
\* is at most latest_mtime and both are modification times of the directory
\* itself or of one of its descendants.
C17_MtimeBounds ==
    \A k \in Returning :
        /\ stack[k].oldest_mtime <= stack[k].latest_mtime
        /\ stack[k].latest_mtime \in MtimesUnder(stack[k].path)
        /\ stack[k].oldest_mtime \in MtimesUnder(stack[k].path)

(***************************************************************************)
(* The name a volume's snapshot carries.                                   *)
(***************************************************************************)

\* The top-level directories that get_subdirs_info measures through a
\* child holding .urb.
Redirected == {v \in TopLevelDirs : HasMarker(v) /\ UrbChildren(v) # <<>>}

\* C18 as stated: the snapshot published for a redirected volume has the
\* volume directory's name in DirInfo.path.
C18_SnapshotNamesVolume ==
    ScanDone =>
        \A v \in Redirected :
            /\ Basename(v) \in DOMAIN series
            /\ series[Basename(v)].path = Basename(v)

\* C18 amended: the snapshot of a redirected volume is published under the
\* volume directory's name (the first element of the yielded pair), and its
\* DirInfo.path is the name of the child directory that was measured.
C18_SnapshotNamesPayload ==
    ScanDone =>
        \A v \in Redirected :
            /\ Basename(v) \in DOMAIN series
            /\ series[Basename(v)].path = Basename(UrbChildren(v)[1])

\* C18 witness: xtlon_c was measured through p, and its snapshot, published
\* under xtlon_c, carries the name p.
C18_Witness ==
    /\ ScanDone
    /\ <<NameOf[4]>> \in Redirected
    /\ NameOf[4] \in DOMAIN series
    /\ series[NameOf[4]].path = NameOf[8]

(***************************************************************************)
(* The published series.                                                   *)
(***************************************************************************)

\* A cycle of the polling loop has completed (main is at line 270).
CycleCompleted ==
    /\ pc = "loop"
    /\ yieldedLog # <<>>
    /\ Len(retractedLog) = Len(yieldedLog)

\* C19: when a cycle has completed, the names that have series are exactly
\* the names yielded in that cycle, and none of the names yielded in the
\* cycle was retracted in it.
C19_SeriesAreYielded ==
    CycleCompleted =>
        /\ DOMAIN series = yieldedLog[Len(yieldedLog)]
        /\ retractedLog[Len(retractedLog)] \cap yieldedLog[Len(yieldedLog)] = {}

\* C19 witness: the second cycle has completed, a name of the first cycle
\* was retracted in it and the names it yielded have series.
C19_Witness ==
    /\ CycleCompleted
    /\ Len(yieldedLog) = 2
    /\ retractedLog[2] # {}
    /\ yieldedLog[2] # {}
    /\ DOMAIN series = yieldedLog[2]

(***************************************************************************)
(* The charging of the scan's queries.                                     *)
(***************************************************************************)

====
